---------------------------- MODULE Spec2Model ----------------------------
(***************************************************************************)
(* A model of src/venmo_integration.py: the VenmoIntegration client.       *)
(*                                                                         *)
(* JSON values are tagged records, so that a number, a string, an object   *)
(* and Python's None stay different values that can be compared:           *)
(*   Null, Bool(b), Num(n), Str(s), Obj(record), Arr(sequence).            *)
(* A formatted string (an f-string, a + of strings) is the sequence of its *)
(* parts.                                                                  *)
(***************************************************************************)
EXTENDS Integers, Sequences, FiniteSets, TLC

VARIABLES
    authorization_token,   \* self.authorization_token  (Null before initialize)
    headers,               \* self.headers              (Null before initialize)
    network_requester,     \* self.network_requester
    identityJson,          \* self.identityJson
    transactionJson,       \* self.transactionJson
    is_limited_account,    \* self.is_limited_account
    tasks,                 \* the coroutines running on the instance
    wallet,                \* the wallet list the provider holds (wallet harness)
    call                   \* the response under test (_handle_response harness)

session == <<authorization_token, headers, network_requester,
             identityJson, transactionJson>>
vars == <<authorization_token, headers, network_requester, identityJson,
          transactionJson, is_limited_account, tasks, wallet, call>>

---------------------------------------------------------------------------
(* JSON values and Python's view of them *)

Null == [k |-> "null"]
Bool(b) == [k |-> "bool", b |-> b]
Num(n) == [k |-> "num", n |-> n]
Str(s) == [k |-> "str", s |-> s]
Obj(m) == [k |-> "obj", m |-> m]
Arr(a) == [k |-> "arr", a |-> a]
EmptyObj == [k |-> "obj", m |-> <<>>]

\* Python truthiness: None, False, 0, "", {} and [] are falsy.
Truthy(v) ==
    CASE v.k = "null" -> FALSE
      [] v.k = "bool" -> v.b
      [] v.k = "num" -> v.n # 0
      [] v.k = "str" -> v.s # ""
      [] v.k = "obj" -> DOMAIN v.m # {}
      [] v.k = "arr" -> Len(v.a) # 0
      [] OTHER -> TRUE

\* The outcome of a call: a returned value or a raised exception.
Return(v) == [kind |-> "return", value |-> v]
Raise(e) == [kind |-> "raise", exc |-> e]

\* dict.get(key, default); on a value that is no dict Python raises
\* AttributeError, which is the marker NoAttr here.
NoAttr == [k |-> "no_attribute"]
dict_get(d, key, default) ==
    IF d.k = "no_attribute" THEN NoAttr
    ELSE IF d.k # "obj" THEN NoAttr
    ELSE IF key \in DOMAIN d.m THEN d.m[key] ELSE default

\* Integration.safe_get(data, keys, action): the value at the path, or the
\* marker Missing when a key of the path is absent (the caller then fails
\* with an extraction error).
Missing == [k |-> "missing"]
RECURSIVE safe_get(_, _)
safe_get(data, keys) ==
    IF keys = <<>> THEN data
    ELSE IF data.k = "obj" /\ Head(keys) \in DOMAIN data.m
         THEN safe_get(data.m[Head(keys)], Tail(keys))
         ELSE Missing
ExtractionError(action) ==
    [cls |-> "IntegrationAPIError", integration |-> "venmo",
     message |-> <<Str("extraction failed"), Str(action)>>,
     status |-> Num(500), code |-> Null]

---------------------------------------------------------------------------
(* _handle_response *)

\* A transport response: its status and its body, which parses to JSON or
\* does not.
Body(j) == [parse |-> "ok", json |-> j]
Unparseable == [parse |-> "fail", json |-> Null]
Response(status, body) == [status |-> status, body |-> body]

\* await response.json() on a body that is not JSON raises (aiohttp's
\* ContentTypeError / json's JSONDecodeError).
ParseError == [cls |-> "JSONDecodeError"]
AttributeError == [cls |-> "AttributeError"]
TypeError == [cls |-> "TypeError"]

IntegrationAuthError(message, status, code) ==
    [cls |-> "IntegrationAuthError", integration |-> "venmo",
     message |-> message, status |-> status, code |-> code]
IntegrationAPIError(name, message, status, code) ==
    [cls |-> "IntegrationAPIError", integration |-> name,
     message |-> message, status |-> status, code |-> code]

str(n) == Str(ToString(n))

handle_error(response, error_message, error_code) ==
    IF response.status = 401
    THEN Raise(IntegrationAuthError(<<Str("Venmo: "), error_message>>,
                                    Num(response.status), error_code))
    ELSE IF response.status = 400 /\ error_message = Str("Resource not found.")
    THEN Raise(IntegrationAPIError("venmo", <<Str("Resource not found.")>>,
                                   Num(response.status), error_code))
    ELSE Raise(IntegrationAPIError("venmo",
                   <<error_message, Str(" (HTTP "), Num(response.status), Str(")")>>,
                   Num(response.status), error_code))

\* await response.json()
json(response) ==
    IF response.body.parse = "fail" THEN Raise(ParseError)
    ELSE Return(response.body.json)

handle_response(response) ==
    IF response.status = 200 THEN json(response)
    ELSE IF json(response).kind = "raise" THEN json(response)
    ELSE LET response_json == json(response).value
             error == dict_get(response_json, "error", EmptyObj)
             error_message == dict_get(error, "message", Str("Unknown error"))
             error_code == dict_get(error, "code", str(response.status))
         IN  IF error_message = NoAttr \/ error_code = NoAttr
             THEN Raise(AttributeError)
             ELSE handle_error(response, error_message, error_code)

---------------------------------------------------------------------------
(* get_payment_methods: the funding source selection *)

\* The candidates the scan has recorded so far; exc is the exception that
\* ended it, if any.
NoCandidates ==
    [primary_id |-> Null, backup_id |-> Null, double_backup_id |-> Null,
     exc |-> Null]

\* One iteration of the loop over payment_methods.
scan_step(acc, payment_method, amount, limited) ==
    LET peer_payments_role == safe_get(payment_method, <<"roles", "peerPayments">>)
        available_balance ==
            safe_get(payment_method, <<"metadata", "availableBalance", "value">>)
        id == safe_get(payment_method, <<"id">>)
        expirationStatus ==
            dict_get(dict_get(payment_method, "metadata", EmptyObj),
                     "expirationStatus", Null)
        failed == [acc EXCEPT !.exc = ExtractionError("get_payment_methods")]
    IN  IF peer_payments_role = Missing THEN failed
        ELSE IF peer_payments_role = Str("primary") /\ ~Truthy(limited)
        THEN IF available_balance = Missing THEN failed
             ELSE IF available_balance.k # "num"
             THEN [acc EXCEPT !.exc = TypeError]
             ELSE IF available_balance.n >= amount
                  THEN IF id = Missing THEN failed
                       ELSE [acc EXCEPT !.primary_id = id]
                  ELSE acc
        ELSE IF peer_payments_role = Str("backup")
        THEN IF id = Missing THEN failed ELSE [acc EXCEPT !.backup_id = id]
        ELSE IF peer_payments_role = Str("none") /\ expirationStatus = NoAttr
        THEN [acc EXCEPT !.exc = AttributeError]
        ELSE IF peer_payments_role = Str("none") /\ expirationStatus = Str("active")
        THEN IF id = Missing THEN failed
             ELSE [acc EXCEPT !.double_backup_id = id]
        ELSE acc

\* Variant: the scan stops at the first candidate it records.
RECURSIVE scan_first_wins(_, _, _, _)
scan_first_wins(acc, payment_methods, amount, limited) ==
    IF payment_methods = <<>> \/ acc # NoCandidates THEN acc
    ELSE scan_first_wins(scan_step(acc, Head(payment_methods), amount, limited),
                         Tail(payment_methods), amount, limited)

RECURSIVE scan(_, _, _, _)
scan(acc, payment_methods, amount, limited) ==
    IF payment_methods = <<>> \/ acc.exc # Null THEN acc
    ELSE scan(scan_step(acc, Head(payment_methods), amount, limited),
              Tail(payment_methods), amount, limited)

\* Variant: the backup candidate is returned ahead of the primary one.
priority_backup_first(acc) ==
    IF Truthy(acc.backup_id) THEN acc.backup_id
    ELSE IF Truthy(acc.primary_id) THEN acc.primary_id
    ELSE IF Truthy(acc.double_backup_id) THEN acc.double_backup_id
    ELSE Null

\* "Return in priority order".
priority(acc) ==
    IF Truthy(acc.primary_id) THEN acc.primary_id
    ELSE IF Truthy(acc.backup_id) THEN acc.backup_id
    ELSE IF Truthy(acc.double_backup_id) THEN acc.double_backup_id
    ELSE Null

\* Variant: the selection does not look at is_limited_account.
select_funding_unlimited(data, amount, limited) ==
    LET payment_methods == safe_get(data, <<"data", "profile", "wallet">>)
    IN  IF payment_methods = Missing \/ payment_methods.k # "arr"
        THEN Raise(ExtractionError("get_payment_methods"))
        ELSE Return(priority(scan(NoCandidates, payment_methods.a, amount,
                                  Bool(FALSE))))

\* get_payment_methods once the wallet query has answered with data.
select_funding(data, amount, limited) ==
    LET payment_methods == safe_get(data, <<"data", "profile", "wallet">>)
    IN  IF payment_methods = Missing \/ payment_methods.k # "arr"
        THEN Raise(ExtractionError("get_payment_methods"))
        ELSE LET acc == scan(NoCandidates, payment_methods.a, amount, limited)
             IN  IF acc.exc # Null THEN Raise(acc.exc)
                 ELSE Return(priority(acc))

---------------------------------------------------------------------------
(* The values the provider and the caller supply *)

\* The longest wallet list the provider returns.
MaxWallet == 3

Amounts == {10, 50}
BalanceValues == {10, 60}
InstrumentIds == <<"A", "B", "C", "D", "E">>

\* What the selection reads of a funding instrument besides its id: the
\* peerPayments role and, where the instrument has one, the metadata.  A
\* balance instrument carries availableBalance, a card or bank may carry
\* expirationStatus.
NoMetadata == <<>>
Metadata(m) == [metadata |-> Obj(m)]
InstrumentKinds ==
    {[role |-> "primary",
      extra |-> Metadata([availableBalance |-> Obj([value |-> Num(b)])])] :
        b \in BalanceValues}
    \cup {[role |-> "backup", extra |-> NoMetadata],
          [role |-> "backup", extra |-> Metadata([expirationStatus |-> Str("expired")])],
          [role |-> "none", extra |-> Metadata([expirationStatus |-> Str("active")])],
          [role |-> "none", extra |-> Metadata([expirationStatus |-> Str("expired")])],
          [role |-> "none", extra |-> NoMetadata],
          [role |-> "ineligible",
           extra |-> Metadata([expirationStatus |-> Str("active")])]}

Instrument(kind, i) ==
    Obj([id |-> Str(InstrumentIds[i]),
         roles |-> Obj([peerPayments |-> Str(kind.role)])] @@ kind.extra)

RECURSIVE WalletsOfLen(_)
WalletsOfLen(n) ==
    IF n = 0 THEN {<<>>}
    ELSE {Append(w, Instrument(kind, n)) :
             w \in WalletsOfLen(n - 1), kind \in InstrumentKinds}

Wallets == UNION {WalletsOfLen(n) : n \in 0..MaxWallet}

WalletData(w) == Obj([data |-> Obj([profile |-> Obj([wallet |-> Arr(w)])])])

Ok(j) == Response(200, Body(j))
Unauthorized ==
    Response(401, Body(Obj([error |-> Obj([message |-> Str("Invalid token"),
                                           code |-> Num(261)])])))

\* The account payloads GET /account answers with.
Identity(u, b, l) ==
    Obj([data |-> Obj([user |-> Obj([id |-> Str(u)]),
                       balance |-> b,
                       is_limited_account |-> Bool(l)])])
IdentityPayloads ==
    {Identity("u1", Obj([value |-> Num(42)]), FALSE),
     Identity("u1", Obj([value |-> Num(42)]), TRUE),
     Identity("u2", Num(7), FALSE)}

---------------------------------------------------------------------------
(* The coroutines.  A coroutine runs atomically from one await of          *)
(* _make_request to the next; pc names the request it awaits and req is    *)
(* the last request it has issued.                                         *)

Tasks == {"t1", "t2"}

BaseUrl == "https://api.venmo.com/v1"
GraphqlUrl == <<"https://api.venmo.com/graphql">>
PaymentsUrl == <<BaseUrl, "/payments">>

NoArgs == [user_id |-> Null, amount |-> 0, note |-> Null, privacy |-> Null]
NoReq == [method |-> "", url |-> <<>>, headers |-> Null, json |-> Null]
NoLoc == [recipient_id |-> Null, funding_source_id |-> Null]
NoOut == [kind |-> "none"]
Idle == [op |-> "idle", pc |-> "idle", args |-> NoArgs, req |-> NoReq,
         loc |-> NoLoc, out |-> NoOut]

Free(t) == tasks[t].pc \in {"idle", "returned", "raised"}

Begin(op, args) == [Idle EXCEPT !.op = op, !.args = args]
returned(task, v) == [task EXCEPT !.pc = "returned", !.out = Return(v)]
raised(task, e) == [task EXCEPT !.pc = "raised", !.out = Raise(e)]

\* _make_request(method, url, headers=self.headers, json=...): the request
\* goes out with the headers the instance holds now, and the coroutine
\* awaits the answer at pc.  Before initialize there is no self.headers.
make_request(self, task, pc, method, url, body) ==
    IF self.headers = Null THEN raised(task, AttributeError)
    ELSE [task EXCEPT !.pc = pc,
                      !.req = [method |-> method, url |-> url,
                               headers |-> self.headers, json |-> body]]

\* The instance as the coroutine sees it.
Self ==
    [authorization_token |-> authorization_token, headers |-> headers,
     network_requester |-> network_requester, identityJson |-> identityJson,
     transactionJson |-> transactionJson,
     is_limited_account |-> is_limited_account]

Awaits(t, ops, pc) == tasks[t].op \in ops /\ tasks[t].pc = pc

\* --- the calls that start a request

\* get_identity: GET /account
get_identity(self, task) ==
    make_request(self, task, "identity", "GET", <<BaseUrl, "/account">>, Null)

\* get_personal_transaction: GET /stories/target-or-actor/<data.user.id>
\* of the cached identity snapshot.
get_personal_transaction(self, task) ==
    LET id == safe_get(self.identityJson, <<"data", "user", "id">>)
    IN  IF id = Missing
        THEN raised(task, ExtractionError("get_personal_transaction"))
        ELSE make_request(self, task, "history", "GET",
                          <<BaseUrl, "/stories/target-or-actor/", id>>, Null)

\* get_payment_methods up to its await: POST the wallet query.
get_payment_methods(self, task) ==
    make_request(self, task, "wallet", "POST", GraphqlUrl,
                 Obj([query |-> Str("get_wallet_query")]))

\* get_user: GET /users/<user_id>
get_user(self, task) ==
    make_request(self, task, "user", "GET",
                 <<BaseUrl, "/users/", task.args.user_id>>, Null)

\* get_handle: POST the Identity query.
get_handle(self, task) ==
    make_request(self, task, "handle", "POST", GraphqlUrl,
                 Obj([operationName |-> Str("Identity"), variables |-> EmptyObj,
                      query |-> Str("get_handle_query")]))

\* Variant: the balance is read at data.balance.value.
get_balance_value(self, task) ==
    LET balance == safe_get(self.identityJson, <<"data", "balance", "value">>)
    IN  IF balance = Missing THEN raised(task, ExtractionError("get_balance"))
        ELSE returned(task, balance)

\* get_balance: no request.
get_balance(self, task) ==
    LET balance == safe_get(self.identityJson, <<"data", "balance">>)
    IN  IF balance = Missing THEN raised(task, ExtractionError("get_balance"))
        ELSE returned(task, balance)

\* pay_user from the funding source on: the check and the transfer POST.
pay_body(task, funding_source_id) ==
    Obj([funding_source_id |-> funding_source_id,
         user_id |-> task.loc.recipient_id,
         audience |-> task.args.privacy,
         amount |-> Num(task.args.amount),
         note |-> task.args.note])

\* Variant: the transfer is posted whatever the funding source.
pay_transfer_unchecked(self, task, funding_source_id) ==
    make_request(self, [task EXCEPT !.loc.funding_source_id = funding_source_id],
                 "post", "POST", PaymentsUrl, pay_body(task, funding_source_id))

pay_transfer(self, task, funding_source_id) ==
    IF ~Truthy(funding_source_id)
    THEN raised(task, IntegrationAPIError("venmo",
                    <<Str("No funding source available.")>>, Num(500), Null))
    ELSE make_request(self, [task EXCEPT !.loc.funding_source_id = funding_source_id],
                      "post", "POST", PaymentsUrl,
                      pay_body(task, funding_source_id))

\* Variant: the amount is posted as given.
request_body_positive(task, recipient_id) ==
    Obj([user_id |-> recipient_id,
         audience |-> task.args.privacy,
         amount |-> Num(task.args.amount),
         note |-> task.args.note])

\* request_user from the recipient on: the transfer POST.
request_body(task, recipient_id) ==
    Obj([user_id |-> recipient_id,
         audience |-> task.args.privacy,
         amount |-> Num(-task.args.amount),
         note |-> task.args.note])

request_transfer(self, task, recipient_id) ==
    make_request(self, [task EXCEPT !.loc.recipient_id = recipient_id],
                 "post", "POST", PaymentsUrl,
                 request_body(task, recipient_id))

---------------------------------------------------------------------------
(* The operations: one action per call, one per answer a coroutine awaits  *)

UserAgent == Str("Mozilla/5.0")
Tokens == {Str("tok")}
Requesters == {Null, Str("custom_requester")}
UserArgs == {Str("Alan-Lu-16")}
Notes == {Str("lunch")}
Audiences == {Str("private")}

PayArgs ==
    [user_id : UserArgs, amount : Amounts, note : Notes, privacy : Audiences]

Headers(token) ==
    Obj(("User-Agent" :> UserAgent) @@ ("Content-Type" :> Str("application/json"))
        @@ ("Authorization" :> <<Str("Bearer "), token>>))

Failures == {Unauthorized}
IdentityResponses == {Ok(p) : p \in IdentityPayloads} \cup Failures
UserResponses == {Ok(Obj([data |-> Obj([id |-> Str("r1")])]))} \cup Failures
SessionWallets == {w \in Wallets : Len(w) <= 1}
WalletResponses == {Ok(WalletData(w)) : w \in SessionWallets} \cup Failures
PlainResponses == {Ok(Obj([data |-> EmptyObj]))} \cup Failures
HandleResponses ==
    {Ok(Obj([data |-> Obj([profile |->
        Obj([availableIdentities |->
            Arr(<<Obj([handle |-> Str("alan"), type |-> Str("personal")])>>)])])]))}
    \cup Failures

Run(t, task) == tasks' = [tasks EXCEPT ![t] = task]

\* initialize(authorization_token, network_requester) up to its first await.
Initialize(t, token, requester) ==
    /\ Free(t)
    /\ authorization_token = Null
    /\ authorization_token' = token
    /\ headers' = Headers(token)
    /\ network_requester' = requester
    /\ Run(t, get_identity([Self EXCEPT !.headers = Headers(token)],
                           Begin("initialize", NoArgs)))
    /\ UNCHANGED <<identityJson, transactionJson, is_limited_account, wallet, call>>

GetIdentity(t) ==
    /\ Free(t)
    /\ Run(t, get_identity(Self, Begin("get_identity", NoArgs)))
    /\ UNCHANGED <<session, is_limited_account, wallet, call>>

GetBalance(t) ==
    /\ Free(t)
    /\ Run(t, get_balance(Self, Begin("get_balance", NoArgs)))
    /\ UNCHANGED <<session, is_limited_account, wallet, call>>

GetPersonalTransaction(t) ==
    /\ Free(t)
    /\ Run(t, get_personal_transaction(Self,
                  Begin("get_personal_transaction", NoArgs)))
    /\ UNCHANGED <<session, is_limited_account, wallet, call>>

GetPaymentMethods(t, amount) ==
    /\ Free(t)
    /\ Run(t, get_payment_methods(Self,
                  Begin("get_payment_methods", [NoArgs EXCEPT !.amount = amount])))
    /\ UNCHANGED <<session, is_limited_account, wallet, call>>

GetUser(t, user_id) ==
    /\ Free(t)
    /\ Run(t, get_user(Self, Begin("get_user", [NoArgs EXCEPT !.user_id = user_id])))
    /\ UNCHANGED <<session, is_limited_account, wallet, call>>

PayUser(t, args) ==
    /\ Free(t)
    /\ Run(t, get_user(Self, Begin("pay_user", args)))
    /\ UNCHANGED <<session, is_limited_account, wallet, call>>

RequestUser(t, args) ==
    /\ Free(t)
    /\ Run(t, get_user(Self, Begin("request_user", args)))
    /\ UNCHANGED <<session, is_limited_account, wallet, call>>

GetHandle(t) ==
    /\ Free(t)
    /\ Run(t, get_handle(Self, Begin("get_handle", NoArgs)))
    /\ UNCHANGED <<session, is_limited_account, wallet, call>>

\* Variant: get_identity caches the snapshot it fetched, as initialize does.
IdentityResp_caches(t, r) ==
    /\ Awaits(t, {"initialize", "get_identity"}, "identity")
    /\ LET task == tasks[t]
           data == handle_response(r)
           flag == safe_get(data.value, <<"data", "is_limited_account">>)
       IN  IF data.kind = "raise"
           THEN /\ Run(t, raised(task, data.exc))
                /\ UNCHANGED <<identityJson, is_limited_account>>
           ELSE IF flag = Missing
           THEN /\ Run(t, raised(task, ExtractionError("get_identity")))
                /\ UNCHANGED <<identityJson, is_limited_account>>
           ELSE /\ is_limited_account' = flag
                /\ IF task.op = "get_identity"
                   THEN /\ Run(t, returned(task, data.value))
                        /\ identityJson' = data.value
                   ELSE /\ identityJson' = data.value
                        /\ Run(t, get_personal_transaction(
                                      [Self EXCEPT !.identityJson = data.value],
                                      task))
    /\ UNCHANGED <<authorization_token, headers, network_requester,
                   transactionJson, wallet, call>>

\* The answer to GET /account: the rest of get_identity and, in initialize,
\* the caching of the snapshot and the history request.
IdentityResp(t, r) ==
    /\ Awaits(t, {"initialize", "get_identity"}, "identity")
    /\ LET task == tasks[t]
           data == handle_response(r)
           flag == safe_get(data.value, <<"data", "is_limited_account">>)
       IN  IF data.kind = "raise"
           THEN /\ Run(t, raised(task, data.exc))
                /\ UNCHANGED <<identityJson, is_limited_account>>
           ELSE IF flag = Missing
           THEN /\ Run(t, raised(task, ExtractionError("get_identity")))
                /\ UNCHANGED <<identityJson, is_limited_account>>
           ELSE /\ is_limited_account' = flag
                /\ IF task.op = "get_identity"
                   THEN /\ Run(t, returned(task, data.value))
                        /\ UNCHANGED identityJson
                   ELSE /\ identityJson' = data.value
                        /\ Run(t, get_personal_transaction(
                                      [Self EXCEPT !.identityJson = data.value],
                                      task))
    /\ UNCHANGED <<authorization_token, headers, network_requester,
                   transactionJson, wallet, call>>

\* The answer to GET /stories/target-or-actor/<id>.
HistoryResp(t, r) ==
    /\ Awaits(t, {"initialize", "get_personal_transaction"}, "history")
    /\ LET task == tasks[t]
           data == handle_response(r)
       IN  IF data.kind = "raise"
           THEN /\ Run(t, raised(task, data.exc))
                /\ UNCHANGED transactionJson
           ELSE IF task.op = "initialize"
           THEN /\ transactionJson' = data.value
                /\ Run(t, returned(task, Null))
           ELSE /\ Run(t, returned(task, data.value))
                /\ UNCHANGED transactionJson
    /\ UNCHANGED <<authorization_token, headers, network_requester,
                   identityJson, is_limited_account, wallet, call>>

\* The answer to GET /users/<user_id>.
UserResp(t, r) ==
    /\ Awaits(t, {"get_user", "pay_user", "request_user"}, "user")
    /\ LET task == tasks[t]
           user_data == handle_response(r)
           recipient_id == safe_get(user_data.value, <<"data", "id">>)
       IN  IF user_data.kind = "raise" THEN Run(t, raised(task, user_data.exc))
           ELSE IF task.op = "get_user" THEN Run(t, returned(task, user_data.value))
           ELSE IF recipient_id = Missing
           THEN Run(t, raised(task, ExtractionError(task.op)))
           ELSE IF task.op = "pay_user"
           THEN Run(t, get_payment_methods(Self,
                           [task EXCEPT !.loc.recipient_id = recipient_id]))
           ELSE Run(t, request_transfer(Self, task, recipient_id))
    /\ UNCHANGED <<session, is_limited_account, wallet, call>>

\* The answer to the wallet query: the selection and, in pay_user, the
\* transfer.
WalletResp(t, r) ==
    /\ Awaits(t, {"get_payment_methods", "pay_user"}, "wallet")
    /\ LET task == tasks[t]
           data == handle_response(r)
           funding_source_id ==
               select_funding(data.value, task.args.amount, is_limited_account)
       IN  IF data.kind = "raise" THEN Run(t, raised(task, data.exc))
           ELSE IF funding_source_id.kind = "raise"
           THEN Run(t, raised(task, funding_source_id.exc))
           ELSE IF task.op = "get_payment_methods"
           THEN Run(t, returned(task, funding_source_id.value))
           ELSE Run(t, pay_transfer(Self, task, funding_source_id.value))
    /\ UNCHANGED <<session, is_limited_account, wallet, call>>

\* The answer to POST /payments.
PostResp(t, r) ==
    /\ Awaits(t, {"pay_user", "request_user"}, "post")
    /\ LET task == tasks[t]
           data == handle_response(r)
       IN  IF data.kind = "raise" THEN Run(t, raised(task, data.exc))
           ELSE Run(t, returned(task, data.value))
    /\ UNCHANGED <<session, is_limited_account, wallet, call>>

\* The answer to the Identity query.
HandleResp(t, r) ==
    /\ Awaits(t, {"get_handle"}, "handle")
    /\ LET task == tasks[t]
           data == handle_response(r)
           available_identities ==
               safe_get(data.value, <<"data", "profile", "availableIdentities">>)
       IN  IF data.kind = "raise" THEN Run(t, raised(task, data.exc))
           ELSE IF available_identities = Missing
           THEN Run(t, raised(task, ExtractionError("get_handle")))
           ELSE Run(t, returned(task, available_identities))
    /\ UNCHANGED <<session, is_limited_account, wallet, call>>

NoCall == [response |-> Response(0, Unparseable), out |-> NoOut]

Init ==
    /\ authorization_token = Null
    /\ headers = Null
    /\ network_requester = Null
    /\ identityJson = Null
    /\ transactionJson = Null
    /\ is_limited_account = Null
    /\ tasks = [t \in Tasks |-> Idle]
    /\ wallet = <<>>
    /\ call = NoCall

Next ==
    \E t \in Tasks :
        \/ \E token \in Tokens, requester \in Requesters :
               Initialize(t, token, requester)
        \/ GetIdentity(t)
        \/ GetBalance(t)
        \/ GetPersonalTransaction(t)
        \/ \E amount \in Amounts : GetPaymentMethods(t, amount)
        \/ \E user_id \in UserArgs : GetUser(t, user_id)
        \/ \E args \in PayArgs : PayUser(t, args)
        \/ \E args \in PayArgs : RequestUser(t, args)
        \/ GetHandle(t)
        \/ \E r \in IdentityResponses : IdentityResp(t, r)
        \/ \E r \in PlainResponses : HistoryResp(t, r)
        \/ \E r \in UserResponses : UserResp(t, r)
        \/ \E r \in WalletResponses : WalletResp(t, r)
        \/ \E r \in PlainResponses : PostResp(t, r)
        \/ \E r \in HandleResponses : HandleResp(t, r)

Spec == Init /\ [][Next]_vars

---------------------------------------------------------------------------
(* The selection over every wallet: one instance used by one coroutine at  *)
(* a time, from its construction on, while the provider holds `wallet`.    *)

InitWallet ==
    /\ authorization_token = Null
    /\ headers = Null
    /\ network_requester = Null
    /\ identityJson = Null
    /\ transactionJson = Null
    /\ is_limited_account = Null
    /\ tasks = [t \in Tasks |-> Idle]
    /\ wallet \in Wallets
    /\ call = NoCall

NextWallet ==
    \/ \E token \in Tokens : Initialize("t1", token, Null)
    \/ \E r \in IdentityResponses : IdentityResp("t1", r)
    \/ \E r \in PlainResponses : HistoryResp("t1", r)
    \/ \E amount \in Amounts : GetPaymentMethods("t1", amount)
    \/ \E args \in PayArgs : PayUser("t1", args)
    \/ \E r \in UserResponses : UserResp("t1", r)
    \/ WalletResp("t1", Ok(WalletData(wallet)))
    \/ \E r \in PlainResponses : PostResp("t1", r)

SpecWallet == InitWallet /\ [][NextWallet]_vars

---------------------------------------------------------------------------
(* _handle_response over the responses a transport can hand it *)

Statuses == {200, 400, 401, 404, 500}
ErrorMessages == {Str("Resource not found."), Str("Invalid token")}
ErrorCodes == {Num(261)}
Bodies ==
    {Unparseable,
     Body(Arr(<<>>)),
     Body(EmptyObj),
     Body(Obj([data |-> EmptyObj])),
     Body(Obj([error |-> Null])),
     Body(Obj([error |-> Str("unavailable")])),
     Body(Obj([error |-> EmptyObj]))}
    \cup {Body(Obj([error |-> Obj([message |-> m, code |-> c])])) :
            m \in ErrorMessages, c \in ErrorCodes}
    \cup {Body(Obj([error |-> Obj([message |-> m])])) : m \in ErrorMessages}
    \cup {Body(Obj([error |-> Obj([code |-> c])])) : c \in ErrorCodes}
Responses == {Response(st, b) : st \in Statuses, b \in Bodies}

InitResponse ==
    /\ authorization_token = Null
    /\ headers = Null
    /\ network_requester = Null
    /\ identityJson = Null
    /\ transactionJson = Null
    /\ is_limited_account = Null
    /\ tasks = [t \in Tasks |-> Idle]
    /\ wallet = <<>>
    /\ call \in {[response |-> r, out |-> NoOut] : r \in Responses}

HandleResponse ==
    /\ call.out = NoOut
    /\ call' = [call EXCEPT !.out = handle_response(call.response)]
    /\ UNCHANGED <<session, is_limited_account, tasks, wallet>>

SpecResponse == InitResponse /\ [][HandleResponse]_vars

---------------------------------------------------------------------------
(* What the claims speak of: the instruments of a wallet by role *)

Role(pm) == pm.m.roles.m.peerPayments.s
IdOf(pm) == pm.m.id
HasBalance(pm, amount) ==
    /\ "metadata" \in DOMAIN pm.m
    /\ "availableBalance" \in DOMAIN pm.m.metadata.m
    /\ pm.m.metadata.m.availableBalance.m.value.n >= amount
IsActive(pm) ==
    /\ "metadata" \in DOMAIN pm.m
    /\ "expirationStatus" \in DOMAIN pm.m.metadata.m
    /\ pm.m.metadata.m.expirationStatus = Str("active")

Primaries(w) == {i \in 1..Len(w) : Role(w[i]) = "primary"}
QualifyingPrimaries(w, amount) == {i \in Primaries(w) : HasBalance(w[i], amount)}
Backups(w) == {i \in 1..Len(w) : Role(w[i]) = "backup"}
ActiveOthers(w) == {i \in 1..Len(w) : Role(w[i]) = "none" /\ IsActive(w[i])}
IdsAt(w, S) == {IdOf(w[i]) : i \in S}
LastOf(S) == CHOOSE i \in S : \A j \in S : j <= i

\* The backup observed last, else the active other observed last, else none.
Fallback(w) ==
    IF Backups(w) # {} THEN IdOf(w[LastOf(Backups(w))])
    ELSE IF ActiveOthers(w) # {} THEN IdOf(w[LastOf(ActiveOthers(w))])
    ELSE Null

\* get_payment_methods has answered in coroutine t.
Resolved(t) ==
    /\ tasks[t].op = "get_payment_methods"
    /\ tasks[t].pc \in {"returned", "raised"}
    /\ tasks[t].req.url = GraphqlUrl
\* pay_user in coroutine t is past its funding source resolution.
PayResolved(t) ==
    /\ tasks[t].op = "pay_user"
    /\ tasks[t].pc \in {"post", "returned", "raised"}
    /\ tasks[t].req.url \in {GraphqlUrl, PaymentsUrl}

NoFundingSource ==
    [cls |-> "IntegrationAPIError", integration |-> "venmo",
     message |-> <<Str("No funding source available.")>>,
     status |-> Num(500), code |-> Null]

---------------------------------------------------------------------------
(* The claims about the selection, under SpecWallet *)

\* C1: in a session that is not limited (is_limited_account is false), for a
\* wallet holding a primary instrument whose available balance covers the
\* amount, get_payment_methods returns the id of such a primary instrument,
\* whatever backup or active-other instruments stand before or after it.
C1_PrimaryPreferred ==
    \A t \in Tasks :
        (/\ Resolved(t)
         /\ is_limited_account = Bool(FALSE)
         /\ QualifyingPrimaries(wallet, tasks[t].args.amount) # {})
        => /\ tasks[t].pc = "returned"
           /\ tasks[t].out.value \in
                  IdsAt(wallet, QualifyingPrimaries(wallet, tasks[t].args.amount))
           /\ tasks[t].out.value \notin
                  IdsAt(wallet, Backups(wallet) \cup ActiveOthers(wallet))

C1_Witness ==
    /\ Resolved("t1")
    /\ is_limited_account = Bool(FALSE)
    /\ Len(wallet) = 3
    /\ 1 \in Backups(wallet)
    /\ 2 \in QualifyingPrimaries(wallet, tasks["t1"].args.amount)
    /\ 3 \in ActiveOthers(wallet)
    /\ tasks["t1"].out = Return(IdOf(wallet[2]))

\* C2: in a limited session get_payment_methods never returns the id of a
\* primary instrument, whatever its balance; it returns the backup
\* candidate, else the active-other candidate, else no source.
C2_LimitedSkipsPrimary ==
    \A t \in Tasks :
        (Resolved(t) /\ is_limited_account = Bool(TRUE))
        => /\ tasks[t].pc = "returned"
           /\ tasks[t].out.value \notin IdsAt(wallet, Primaries(wallet))
           /\ tasks[t].out.value = Fallback(wallet)

C2_Witness ==
    /\ Resolved("t1")
    /\ is_limited_account = Bool(TRUE)
    /\ QualifyingPrimaries(wallet, tasks["t1"].args.amount) # {}
    /\ Backups(wallet) # {}
    /\ tasks["t1"].out = Return(Fallback(wallet))

\* C7: with no primary candidate (the session is limited, or no primary
\* instrument covers the amount) get_payment_methods returns the id of the
\* backup observed last; without a backup, the id of the instrument with
\* role none and expirationStatus active observed last; without either, None.
C7_FallbackOrder ==
    \A t \in Tasks :
        (/\ Resolved(t)
         /\ \/ is_limited_account = Bool(TRUE)
            \/ QualifyingPrimaries(wallet, tasks[t].args.amount) = {})
        => tasks[t].out = Return(Fallback(wallet))

\* wallet [{id A, backup}, {id B, none, active}], amount 10, not limited: A.
C7_Witness ==
    /\ wallet = <<Obj([id |-> Str("A"), roles |-> Obj([peerPayments |-> Str("backup")])]),
                  Obj([id |-> Str("B"), roles |-> Obj([peerPayments |-> Str("none")]),
                       metadata |-> Obj([expirationStatus |-> Str("active")])])>>
    /\ is_limited_account = Bool(FALSE)
    /\ Resolved("t1")
    /\ tasks["t1"].args.amount = 10
    /\ tasks["t1"].out = Return(Str("A"))

\* C8: while is_limited_account is still None, get_payment_methods never
\* returns the id of a primary instrument.
C8_UnknownFlagSkipsPrimary ==
    \A t \in Tasks :
        (Resolved(t) /\ tasks[t].pc = "returned" /\ is_limited_account = Null)
        => tasks[t].out.value \notin IdsAt(wallet, Primaries(wallet))

\* C3: a wallet with no primary that covers the amount, no backup and no
\* active other resolves to None, and pay_user then fails without a POST to
\* /payments; it fails with IntegrationAPIError "No funding source
\* available." (status 500).  Every POST to /payments of pay_user carries
\* a non-empty funding_source_id, the id of an instrument of the wallet.
NoCandidate(w, amount) ==
    /\ QualifyingPrimaries(w, amount) = {}
    /\ Backups(w) = {}
    /\ ActiveOthers(w) = {}

---------------------------------------------------------------------------
(* The claims about the operations of one instance, under Spec *)

\* C4: request_user resolves the recipient with get_user and posts to
\* /payments a body whose amount is the negated amount; it never issues
\* the wallet query and its body has no funding_source_id, whatever the
\* session's limited flag is.
C4_RequestNegatesAmount ==
    \A t \in Tasks :
        tasks[t].op = "request_user"
        => /\ tasks[t].pc # "wallet"
           /\ tasks[t].req.url # GraphqlUrl
           /\ tasks[t].loc.funding_source_id = Null
           /\ tasks[t].req.url = PaymentsUrl
              => /\ tasks[t].req.method = "POST"
                 /\ tasks[t].loc.recipient_id = Str("r1")
                 /\ "funding_source_id" \notin DOMAIN tasks[t].req.json.m
                 /\ tasks[t].req.json =
                        Obj([user_id |-> tasks[t].loc.recipient_id,
                             audience |-> tasks[t].args.privacy,
                             amount |-> Num(0 - tasks[t].args.amount),
                             note |-> tasks[t].args.note])

C4_Witness ==
    /\ is_limited_account = Bool(TRUE)
    /\ tasks["t1"].op = "request_user"
    /\ tasks["t1"].pc = "post"
    /\ tasks["t1"].args.amount = 50
    /\ tasks["t1"].req.json.m.amount = Num(-50)
    /\ tasks["t2"].op = "pay_user"
    /\ tasks["t2"].out = Raise(NoFundingSource)

ScenarioIdentity ==
    Obj([data |-> Obj([user |-> Obj([id |-> Str("u1")]),
                       balance |-> Obj([value |-> Num(42)]),
                       is_limited_account |-> Bool(FALSE)])])

\* get_balance ran in this step, in coroutine t.
GetBalanceStep(t) == tasks'[t].op = "get_balance" /\ tasks'[t] # tasks[t]

\* C6: get_balance returns the value the cached identity snapshot holds at
\* data.balance (for the payload {data: {user: {id: u1}, balance: {value:
\* 42}, is_limited_account: false}} that is the object {value: 42}); it
\* issues no request and changes nothing of the instance; every history
\* request goes to /stories/target-or-actor/<the cached data.user.id>.
C6_BalanceAndHistory ==
    /\ [](\A t \in Tasks :
            /\ tasks[t].op = "get_balance"
               => /\ tasks[t].pc \in {"returned", "raised"}
                  /\ tasks[t].req = NoReq
                  /\ tasks[t].pc = "returned"
                     => /\ tasks[t].out.value = identityJson.m.data.m.balance
                        /\ identityJson = ScenarioIdentity
                           => tasks[t].out.value = Obj([value |-> Num(42)])
            /\ tasks[t].pc = "history"
               => /\ tasks[t].req.method = "GET"
                  /\ tasks[t].req.url =
                         <<BaseUrl, "/stories/target-or-actor/",
                           identityJson.m.data.m.user.m.id>>
                  /\ identityJson = ScenarioIdentity
                     => tasks[t].req.url[3] = Str("u1"))
    /\ [][\A t \in Tasks :
            GetBalanceStep(t) => UNCHANGED <<session, is_limited_account>>]_vars

C6_Witness ==
    /\ transactionJson # Null
    /\ identityJson = ScenarioIdentity
    /\ tasks["t1"].op = "get_balance"
    /\ tasks["t1"].out = Return(Obj([value |-> Num(42)]))
    /\ tasks["t2"].op = "get_personal_transaction"
    /\ tasks["t2"].pc = "history"

\* C6 as stated: with that payload get_balance returns 42.
C6_AsStated ==
    \A t \in Tasks :
        (/\ tasks[t].op = "get_balance"
         /\ tasks[t].pc = "returned"
         /\ identityJson = ScenarioIdentity)
        => tasks[t].out.value = Num(42)

\* initialize has completed.
Initialized == transactionJson # Null
\* get_identity completes in this step, in coroutine t.
GetIdentityReturns(t) ==
    /\ tasks[t].op = "get_identity"
    /\ tasks[t].pc = "identity"
    /\ tasks'[t].pc = "returned"

\* C10: after initialize has completed no operation changes the token, the
\* headers, the requester or the cached snapshots; is_limited_account is
\* written only by a get_identity that completes, which sets it to the
\* data.is_limited_account of the payload it returns.
C10_SessionStable ==
    [][Initialized
       => /\ UNCHANGED session
          /\ is_limited_account' # is_limited_account
             => \E t \in Tasks :
                    /\ GetIdentityReturns(t)
                    /\ is_limited_account' =
                           tasks'[t].out.value.m.data.m.is_limited_account]_vars

C10_Witness ==
    /\ Initialized
    /\ tasks["t1"].op = "get_identity"
    /\ tasks["t1"].pc = "returned"
    /\ is_limited_account = Bool(TRUE)
    /\ identityJson.m.data.m.is_limited_account = Bool(FALSE)
    /\ tasks["t2"].op = "pay_user"
    /\ tasks["t2"].pc = "wallet"

\* C10 as stated: after initialize nothing of the session, the flag
\* included, is written again.
C10_AsStated ==
    [][Initialized => UNCHANGED <<session, is_limited_account>>]_vars

---------------------------------------------------------------------------
(* The claims about _handle_response, under SpecResponse *)

Handled == call.out # NoOut
\* The error object of a body, where the body has one.
UpstreamError ==
    LET b == call.response.body IN
    IF b.parse = "ok" /\ b.json.k = "obj" /\ "error" \in DOMAIN b.json.m
    THEN IF b.json.m.error.k = "obj" THEN b.json.m.error.m ELSE <<>>
    ELSE <<>>
UpstreamMessage ==
    IF "message" \in DOMAIN UpstreamError THEN UpstreamError.message
    ELSE Str("Unknown error")
CarriesStatusAndCode ==
    /\ call.out.exc.status = Num(call.response.status)
    /\ "code" \in DOMAIN UpstreamError => call.out.exc.code = UpstreamError.code

\* C5: status 200 returns the parsed body; 401 raises the auth error with
\* the status and the upstream code; 400 with message "Resource not found."
\* raises the not-found API error; every other status raises the API error
\* with message "<upstream message> (HTTP <status>)".
C5_Classification ==
    Handled =>
        LET status == call.response.status
            out == call.out
        IN  /\ status = 200
               => out.kind = "return" /\ out.value = call.response.body.json
            /\ status = 401
               => /\ out.kind = "raise"
                  /\ out.exc.cls = "IntegrationAuthError"
                  /\ CarriesStatusAndCode
            /\ (status = 400 /\ UpstreamMessage = Str("Resource not found."))
               => /\ out.kind = "raise"
                  /\ out.exc.cls = "IntegrationAPIError"
                  /\ out.exc.message = <<Str("Resource not found.")>>
                  /\ CarriesStatusAndCode
            /\ (/\ status \notin {200, 401}
                /\ ~(status = 400 /\ UpstreamMessage = Str("Resource not found.")))
               => /\ out.kind = "raise"
                  /\ out.exc.cls = "IntegrationAPIError"
                  /\ out.exc.message =
                         <<UpstreamMessage, Str(" (HTTP "), Num(status), Str(")")>>
                  /\ CarriesStatusAndCode

\* The body is no JSON, or is JSON without the shape {error: {...}} allows.
Malformed ==
    LET b == call.response.body IN
    \/ b.parse = "fail"
    \/ b.json.k # "obj"
    \/ "error" \in DOMAIN b.json.m /\ b.json.m.error.k # "obj"

\* C9: a response that is not 200 and whose body is malformed raises the
\* generic API error carrying the status.
C9_MalformedBody ==
    (Handled /\ call.response.status # 200 /\ Malformed)
    => /\ call.out.kind = "raise"
       /\ call.out.exc.cls = "IntegrationAPIError"
       /\ call.out.exc.status = Num(call.response.status)

=============================================================================
